---------------------------- MODULE Spec2Model ----------------------------
(* A model of the kalshi-bot pipeline: pool_builder.py (paginated listing  *)
(* fetch, event selection, spread/liquidity filter, ranking, pool          *)
(* assembly) and buy.py (limit pricing, order assembly, signed submission  *)
(* loop).  Each component has its own specification over the shared        *)
(* variables; the variables of the other components stay idle.             *)
EXTENDS Integers, Sequences, FiniteSets, TLC

VARIABLES
  f_pc, f_markets, f_cursor, f_requests, f_responses,   \* get_open_markets_for_series
  s_pc, s_markets, s_now, s_evt, s_members,             \* group_by_event + pick_soonest_future_event
  fl_pc, fl_ladder, fl_filtered, fl_ranked,             \* filter and rank of build_pool
  p_pc, p_i, p_pool, p_scripts,                         \* build_pool
  pr_pc, pr_side, pr_market, pr_buffer, pr_price,       \* _limit_price_cents_for_buy
  b_pc, b_pool, b_choose, b_side_strategy, b_use_market_orders, b_key_ok,
  b_targets, b_idx, b_results, b_calls, b_posts, b_log  \* buy_from_pool

fetchVars  == <<f_pc, f_markets, f_cursor, f_requests, f_responses>>
selVars    == <<s_pc, s_markets, s_now, s_evt, s_members>>
filterVars == <<fl_pc, fl_ladder, fl_filtered, fl_ranked>>
poolVars   == <<p_pc, p_i, p_pool, p_scripts>>
priceVars  == <<pr_pc, pr_side, pr_market, pr_buffer, pr_price>>
buyVars    == <<b_pc, b_pool, b_choose, b_side_strategy, b_use_market_orders, b_key_ok,
                b_targets, b_idx, b_results, b_calls, b_posts, b_log>>
vars == <<fetchVars, selVars, filterVars, poolVars, priceVars, buyVars>>

-----------------------------------------------------------------------------
(* Python values.  A string-valued field that is absent (dict.get gives    *)
(* None) holds the marker None; a JSON number field is a tagged record so  *)
(* that isinstance(x, (int, float)) is a test of the tag.                  *)

None == "<None>"

PyNone   == [t |-> "none", v |-> 0]
PyStr    == [t |-> "str", v |-> 0]
PyInt(n) == [t |-> "int", v |-> n]

\* isinstance(x, (int, float))
IsNumber(x) == x.t = "int"

\* Python truthiness of a string-or-None value: None and "" are falsy.
Truthy(s) == s # None /\ s # ""

\* float("inf"), as the largest representable value
Inf == 2147483647

RECURSIVE ConcatUpto(_, _)
ConcatUpto(ss, k) == IF k = 0 THEN <<>> ELSE ConcatUpto(ss, k - 1) \o ss[k]

\* The concatenation of a sequence of sequences.
Concat(ss) == ConcatUpto(ss, Len(ss))

Range(s) == {s[i] : i \in 1..Len(s)}

SeqsUpTo(S, n) == UNION {[1..k -> S] : k \in 0..n}

IdleFetch  == f_pc = "idle" /\ f_markets = <<>> /\ f_cursor = None
              /\ f_requests = <<>> /\ f_responses = <<>>
IdleSelect == s_pc = "idle" /\ s_markets = <<>> /\ s_now = 0 /\ s_evt = None
              /\ s_members = <<>>
IdleFilter == fl_pc = "idle" /\ fl_ladder = <<>> /\ fl_filtered = <<>> /\ fl_ranked = <<>>
IdlePool   == p_pc = "idle" /\ p_i = 0 /\ p_pool = <<>> /\ p_scripts = <<>>
IdlePrice  == pr_pc = "idle" /\ pr_side = "yes" /\ pr_market = <<>> /\ pr_buffer = 0
              /\ pr_price = 0
IdleBuy    == b_pc = "idle" /\ b_pool = <<>> /\ b_choose = "all" /\ b_side_strategy = "yes"
              /\ b_use_market_orders = FALSE /\ b_key_ok = TRUE /\ b_targets = <<>>
              /\ b_idx = 0 /\ b_results = <<>> /\ b_calls = <<>> /\ b_posts = <<>>
              /\ b_log = <<>>

-----------------------------------------------------------------------------
(* MarketSource: get_open_markets_for_series                               *)

\* Bound on the number of pages one fetch is followed for.
MaxPages == 3

\* Continuation cursors a response may carry: absent, empty, or a token.
Cursors == {None, "", "c1", "c2"}

\* The records a page of the small fetch model may carry.
PageMarkets == {<<>>, <<"m1">>, <<"m2">>, <<"m1", "m2">>}

\* A response of the listing endpoint: an HTTP status, and for a success
\* the JSON body's "markets" and "cursor".
Responses == [status : {"ok", "error"}, markets : PageMarkets, cursor : Cursors]

\* The query parameter "cursor" of the next request: set only if truthy.
params_cursor(cursor) == IF Truthy(cursor) THEN cursor ELSE None

\* A mutant: never sends the cursor back.
fetch_iteration_restart(st, resp) ==
  IF resp.status # "ok"
  THEN [st EXCEPT !.pc = "raised"]
  ELSE [pc      |-> IF Truthy(resp.cursor) THEN "loop" ELSE "done",
        markets |-> st.markets \o resp.markets,
        cursor  |-> None]

\* One iteration of the while loop, given the response the request gets:
\* raise_for_status raises on a non-success status; otherwise the page is
\* appended, the cursor replaced, and the loop left if the cursor is falsy.
fetch_iteration(st, resp) ==
  IF resp.status # "ok"
  THEN [st EXCEPT !.pc = "raised"]
  ELSE [pc      |-> IF Truthy(resp.cursor) THEN "loop" ELSE "done",
        markets |-> st.markets \o resp.markets,
        cursor  |-> resp.cursor]

FetchStart == [pc |-> "loop", markets |-> <<>>, cursor |-> None]

\* The whole call against a server that answers the k-th request with
\* script[k]; a timeout is a response with status "error".
RECURSIVE fetch_loop(_, _, _)
fetch_loop(st, script, k) ==
  IF st.pc # "loop" \/ k > Len(script) THEN st
  ELSE fetch_loop(fetch_iteration(st, script[k]), script, k + 1)

get_open_markets_for_series(script) == fetch_loop(FetchStart, script, 1)

InitFetch ==
  /\ f_pc = "loop" /\ f_markets = <<>> /\ f_cursor = None
  /\ f_requests = <<>> /\ f_responses = <<>>
  /\ IdleSelect /\ IdleFilter /\ IdlePool /\ IdlePrice /\ IdleBuy

\* A successful page: request, response, extend, cursor update, exit test.
FetchPage ==
  /\ f_pc = "loop"
  /\ Len(f_requests) < MaxPages
  /\ \E resp \in Responses :
       /\ resp.status = "ok"
       /\ LET st == fetch_iteration([pc |-> f_pc, markets |-> f_markets,
                                     cursor |-> f_cursor], resp)
          IN /\ f_requests' = Append(f_requests, params_cursor(f_cursor))
             /\ f_responses' = Append(f_responses, resp)
             /\ f_pc' = st.pc
             /\ f_markets' = st.markets
             /\ f_cursor' = st.cursor
  /\ UNCHANGED <<selVars, filterVars, poolVars, priceVars, buyVars>>

\* A request that fails: raise_for_status (or the timeout) raises.
FetchFail ==
  /\ f_pc = "loop"
  /\ Len(f_requests) < MaxPages
  /\ \E resp \in Responses :
       /\ resp.status = "error"
       /\ resp.markets = <<>> /\ resp.cursor = None
       /\ LET st == fetch_iteration([pc |-> f_pc, markets |-> f_markets,
                                     cursor |-> f_cursor], resp)
          IN /\ f_requests' = Append(f_requests, params_cursor(f_cursor))
             /\ f_responses' = Append(f_responses, resp)
             /\ f_pc' = st.pc
             /\ f_markets' = st.markets
             /\ f_cursor' = st.cursor
  /\ UNCHANGED <<selVars, filterVars, poolVars, priceVars, buyVars>>

NextFetch == FetchPage \/ FetchFail

SpecFetch == InitFetch /\ [][NextFetch]_vars


\* C10: the requests of one fetch form a cursor chain: the first carries no
\* cursor, each later one carries the cursor of the previous response, every
\* response but the last carried a continuation cursor, the fetch is done
\* exactly when the last response was a success without one, and the result
\* is then the concatenation, in page order, of every page received.
C10_PagingChain ==
  /\ Len(f_requests) = Len(f_responses)
  /\ f_requests # <<>> => f_requests[1] = None
  /\ \A k \in 2..Len(f_requests) :
       /\ f_responses[k - 1].status = "ok"
       /\ Truthy(f_responses[k - 1].cursor)
       /\ f_requests[k] = f_responses[k - 1].cursor
  /\ f_pc = "done" <=>
       /\ f_responses # <<>>
       /\ f_responses[Len(f_responses)].status = "ok"
       /\ ~Truthy(f_responses[Len(f_responses)].cursor)
  /\ f_pc = "done" =>
       f_markets = Concat([k \in 1..Len(f_responses) |-> f_responses[k].markets])

\* A fetch of three non-empty pages that ended on an empty-string cursor.
C10_Witness ==
  /\ f_pc = "done"
  /\ Len(f_responses) = 3
  /\ f_responses[1].cursor = "c1" /\ f_responses[2].cursor = "c2"
  /\ f_responses[3].cursor = ""
  /\ f_responses[1].markets = <<"m1">> /\ f_responses[2].markets = <<"m1", "m2">>
  /\ f_responses[3].markets = <<"m2">>
  /\ f_markets = <<"m1", "m1", "m2", "m2">>

-----------------------------------------------------------------------------
(* EventSelector: parse_iso_utc, group_by_event, pick_soonest_future_event *)

MIN_TIME_BUFFER_MINUTES == 5

\* Bound on the number of contracts of one listing in the selection model.
MaxMarkets == 3

\* Close-time strings of the model; "" is what m.get("close_time", "")
\* gives for an absent field.
CloseTimes == {"2026-01-01T00:05:00Z", "2026-01-01T00:10:00Z", "2026-01-01T00:13:00Z",
               "2026-01-01T00:15:00Z", "2026-01-01T00:20:00Z", "not-a-time"}

\* Values time.time() takes in the model: 00:10:00Z and 00:16:00Z.
Nows == {1767226200, 1767226560}

\* datetime.fromisoformat(...).timestamp() on the strings of the model;
\* anything that does not parse gives float("inf").
parse_iso_utc(s) ==
  CASE s = "2026-01-01T00:00:00Z" -> 1767225600
    [] s = "2026-01-01T00:05:00Z" -> 1767225900
    [] s = "2026-01-01T00:10:00Z" -> 1767226200
    [] s = "2026-01-01T00:13:00Z" -> 1767226380
    [] s = "2026-01-01T00:15:00Z" -> 1767226500
    [] s = "2026-01-01T00:20:00Z" -> 1767226800
    [] OTHER -> Inf

\* The result of the grouping loop, a dict kept as the sequence of its items
\* in insertion order: the keys are the truthy event tickers in order of
\* first appearance (setdefault), and each group holds the markets of its
\* event in listing order (append).
first_index(markets, evt) ==
  CHOOSE i \in 1..Len(markets) :
    /\ markets[i].event_ticker = evt
    /\ \A j \in 1..(i - 1) : markets[j].event_ticker # evt

group_by_event(markets) ==
  LET keys == {markets[i].event_ticker : i \in {j \in 1..Len(markets) :
                                                  Truthy(markets[j].event_ticker)}}
      key_at(p) == CHOOSE e \in keys :
                     Cardinality({f \in keys : first_index(markets, f)
                                                 <= first_index(markets, e)}) = p
  IN [p \in 1..Cardinality(keys) |->
        LET e == key_at(p)
        IN [evt |-> e, group |-> SelectSeq(markets, LAMBDA m : m.event_ticker = e)]]

\* min((parse_iso_utc(g.get("close_time", "")) for g in group), default=inf)
group_close(group) ==
  LET cs == {parse_iso_utc(group[k].close_time) : k \in 1..Len(group)} \cup {Inf}
  IN CHOOSE c \in cs : \A d \in cs : c <= d

\* The test of one pass: ct >= lower bound (passes 1 and 2) and ct < best_close.
better_candidate(ct, lo, has_lo, best_close) ==
  (has_lo => ct >= lo) /\ ct < best_close

\* One pass over by_event.items(), keeping (best_evt, best_close).
RECURSIVE scan_pass(_, _, _, _, _)
scan_pass(by_evt, k, lo, has_lo, best) ==
  IF k > Len(by_evt) THEN best
  ELSE LET ct == group_close(by_evt[k].group)
       IN scan_pass(by_evt, k + 1, lo, has_lo,
            IF better_candidate(ct, lo, has_lo, best.close)
            THEN [evt |-> by_evt[k].evt, close |-> ct]
            ELSE best)

\* by_event.get(best_evt, [])
dict_get(by_evt, evt) ==
  IF \E i \in 1..Len(by_evt) : by_evt[i].evt = evt
  THEN (CHOOSE e \in Range(by_evt) : e.evt = evt).group
  ELSE <<>>

pick_soonest_future_event(by_evt, now_ts) ==
  IF by_evt = <<>> THEN [evt |-> None, members |-> <<>>]
  ELSE
    LET min_close_ts == now_ts + MIN_TIME_BUFFER_MINUTES * 60
        start == [evt |-> None, close |-> Inf]
        b1 == scan_pass(by_evt, 1, min_close_ts, TRUE, start)
        b2 == IF b1.evt = None THEN scan_pass(by_evt, 1, now_ts, TRUE, b1) ELSE b1
        b3 == IF b2.evt = None THEN scan_pass(by_evt, 1, 0, FALSE, b2) ELSE b2
    IN [evt |-> b3.evt, members |-> dict_get(by_evt, b3.evt)]

\* The contracts of the selection model: an event identifier (possibly
\* absent) and a close-time string.
SelContracts == [event_ticker : {None, "E1", "E2"}, close_time : CloseTimes]

InitSelect ==
  /\ s_pc = "input"
  /\ s_markets \in SeqsUpTo(SelContracts, MaxMarkets)
  /\ s_now = 0 /\ s_evt = None /\ s_members = <<>>
  /\ IdleFetch /\ IdleFilter /\ IdlePool /\ IdlePrice /\ IdleBuy

\* group_by_event followed by pick_soonest_future_event, which reads the clock.
SelectEvent ==
  /\ s_pc = "input"
  /\ \E now \in Nows :
       LET r == pick_soonest_future_event(group_by_event(s_markets), now)
       IN /\ s_now' = now
          /\ s_evt' = r.evt
          /\ s_members' = r.members
  /\ s_pc' = "done"
  /\ UNCHANGED <<s_markets, fetchVars, filterVars, poolVars, priceVars, buyVars>>

NextSelect == SelectEvent

SpecSelect == InitSelect /\ [][NextSelect]_vars

\* The event identifiers of a listing and each event's close time, stated
\* on the listing itself.
EventsOf(markets) == {m.event_ticker : m \in {x \in Range(markets) : Truthy(x.event_ticker)}}

CloseOf(markets, e) ==
  LET cs == {parse_iso_utc(m.close_time) : m \in {x \in Range(markets) : x.event_ticker = e}}
  IN CHOOSE c \in cs : \A d \in cs : c <= d

IsSoonestAmong(markets, e, S) ==
  e \in S /\ \A g \in S : CloseOf(markets, e) <= CloseOf(markets, g)

\* C4: whenever at least one contract was fetched (each carrying an event
\* identifier, as every Contract does), selection returns an event together
\* with a non-empty member list, whatever the close times; the empty result
\* is returned only when there are no contracts.
C4_AlwaysSomethingToTrade ==
  s_pc = "done" =>
    /\ (s_markets # <<>> /\ \A k \in 1..Len(s_markets) : Truthy(s_markets[k].event_ticker))
         => (s_evt # None /\ s_members # <<>>)
    /\ s_markets = <<>> => (s_evt = None /\ s_members = <<>>)

\* C9: the three passes in strict priority: the soonest group closing at or
\* after now + 5 minutes if there is one, else the soonest group closing at
\* or after now if there is one, else the soonest group of all.
C9_ThreePassPriority ==
  s_pc = "done" =>
    LET E  == EventsOf(s_markets)
        P1 == {e \in E : CloseOf(s_markets, e) >= s_now + 5 * 60}
        P2 == {e \in E : CloseOf(s_markets, e) >= s_now}
    IN IF P1 # {} THEN IsSoonestAmong(s_markets, s_evt, P1)
       ELSE IF P2 # {} THEN IsSoonestAmong(s_markets, s_evt, P2)
       ELSE E # {} => IsSoonestAmong(s_markets, s_evt, E)

-----------------------------------------------------------------------------
(* MarketFilter: yes_spread, no_spread, the filter and the ranking of      *)
(* build_pool                                                              *)

MAX_SPREAD_CENTS == 30
MIN_LIQUIDITY_CENTS == 1000
TOP_N_LIQUID_PER_EVENT == 50

\* A mutant of yes_spread: the dead-quote test forgotten.
yes_spread_no_dead_check(m) ==
  IF IsNumber(m.yes_bid) /\ IsNumber(m.yes_ask)
  THEN m.yes_ask.v - m.yes_bid.v
  ELSE Inf

yes_spread(m) ==
  IF IsNumber(m.yes_bid) /\ IsNumber(m.yes_ask)
  THEN IF (m.yes_bid.v = 0 /\ m.yes_ask.v = 0) \/ (m.yes_bid.v = 100 /\ m.yes_ask.v = 100)
       THEN Inf
       ELSE m.yes_ask.v - m.yes_bid.v
  ELSE Inf

no_spread(m) ==
  IF IsNumber(m.no_bid) /\ IsNumber(m.no_ask)
  THEN IF (m.no_bid.v = 0 /\ m.no_ask.v = 0) \/ (m.no_bid.v = 100 /\ m.no_ask.v = 100)
       THEN Inf
       ELSE m.no_ask.v - m.no_bid.v
  ELSE Inf

\* m.get("liquidity", 0): the tag "none" of this field stands for an absent key.
get_liquidity(m) == IF IsNumber(m.liquidity) THEN m.liquidity.v ELSE 0

\* The test of the filter loop.
passes_filter(m) ==
  /\ yes_spread(m) < MAX_SPREAD_CENTS
  /\ no_spread(m) < MAX_SPREAD_CENTS
  /\ get_liquidity(m) >= MIN_LIQUIDITY_CENTS

\* m = dict(m) and the three annotations.
annotate(m, evt_ticker) ==
  [f \in DOMAIN m \cup {"_yes_spread", "_no_spread", "_event_ticker"} |->
     CASE f = "_yes_spread"   -> yes_spread(m)
       [] f = "_no_spread"    -> no_spread(m)
       [] f = "_event_ticker" -> evt_ticker
       [] OTHER               -> m[f]]

\* The filter loop of build_pool over the selected event's ladder: the
\* members that pass, in ladder order, each as an annotated copy.
filter_ladder(ladder, evt_ticker) ==
  LET kept == SelectSeq(ladder, passes_filter)
  IN [k \in 1..Len(kept) |-> annotate(kept[k], evt_ticker)]

\* The liquidities of xs that are larger (desc) or smaller (~desc) than v.
keys_before(xs, v, desc) ==
  {get_liquidity(xs[k]) : k \in {j \in 1..Len(xs) :
      IF desc THEN get_liquidity(xs[j]) > v ELSE get_liquidity(xs[j]) < v}}

\* A stable sort by liquidity: the elements of each liquidity keep their
\* order, and the liquidities follow one another downwards (desc) or upwards.
stable_sort(xs, desc) ==
  LET keys == {get_liquidity(xs[k]) : k \in 1..Len(xs)}
      key_at(p) == CHOOSE v \in keys : Cardinality(keys_before(xs, v, desc)) = p - 1
  IN Concat([p \in 1..Cardinality(keys) |->
               LET v == key_at(p)
               IN SelectSeq(xs, LAMBDA x : get_liquidity(x) = v)])

\* A mutant of the sort: ascending (reverse=True forgotten).
sort_by_liquidity_asc(filtered) == stable_sort(filtered, FALSE)

\* filtered.sort(key=lambda x: x.get("liquidity", 0), reverse=True)
sort_by_liquidity_desc(filtered) == stable_sort(filtered, TRUE)

\* filtered[:TOP_N_LIQUID_PER_EVENT], skipped when the cap is 0
truncate_top_n(filtered) ==
  IF TOP_N_LIQUID_PER_EVENT # 0 /\ Len(filtered) > TOP_N_LIQUID_PER_EVENT
  THEN SubSeq(filtered, 1, TOP_N_LIQUID_PER_EVENT)
  ELSE filtered

rank_and_truncate(filtered) == truncate_top_n(sort_by_liquidity_desc(filtered))

\* Bound on the ladder length of the filter model.
MaxLadder == 2

\* Quotes (bid, ask) of the filter model: a missing price, the two dead
\* quotes, a tight quote, and a quote exactly at the threshold.
YesQuotes == {<<PyNone, PyInt(55)>>, <<PyInt(0), PyInt(0)>>, <<PyInt(100), PyInt(100)>>,
              <<PyInt(40), PyInt(55)>>, <<PyInt(40), PyInt(70)>>}
NoQuotes  == {<<PyInt(45), PyNone>>, <<PyInt(0), PyInt(0)>>, <<PyInt(100), PyInt(100)>>,
              <<PyInt(45), PyInt(60)>>, <<PyInt(45), PyInt(75)>>}
Liquidities == {PyNone, PyInt(999), PyInt(1000)}

FilterContracts ==
  {[ticker |-> "T", event_ticker |-> "E1", close_time |-> "2026-01-01T00:20:00Z",
    yes_bid |-> y[1], yes_ask |-> y[2], no_bid |-> n[1], no_ask |-> n[2], liquidity |-> l] :
     y \in YesQuotes, n \in NoQuotes, l \in Liquidities}

InitFilter ==
  /\ fl_pc = "input"
  /\ fl_ladder \in SeqsUpTo(FilterContracts, MaxLadder)
  /\ fl_filtered = <<>> /\ fl_ranked = <<>>
  /\ IdleFetch /\ IdleSelect /\ IdlePool /\ IdlePrice /\ IdleBuy

\* The filter loop, then (unless nothing survived) the sort and the cap.
FilterAndRank ==
  /\ fl_pc = "input"
  /\ LET filtered == filter_ladder(fl_ladder, "E1")
     IN /\ fl_filtered' = filtered
        /\ fl_ranked' = IF filtered = <<>> THEN <<>> ELSE rank_and_truncate(filtered)
  /\ fl_pc' = "done"
  /\ UNCHANGED <<fl_ladder, fetchVars, selVars, poolVars, priceVars, buyVars>>

NextFilter == FilterAndRank

SpecFilter == InitFilter /\ [][NextFilter]_vars

\* The spread of one side as the claim defines it, infinite being "no spread
\* below any threshold": SpreadBelow(bid, ask, n) is "the spread is < n".
SpreadBelow(bid, ask, n) ==
  /\ bid.t = "int" /\ ask.t = "int"
  /\ ~(bid.v = 0 /\ ask.v = 0)
  /\ ~(bid.v = 100 /\ ask.v = 100)
  /\ ask.v - bid.v < n

Keeps(m) ==
  /\ SpreadBelow(m.yes_bid, m.yes_ask, 30)
  /\ SpreadBelow(m.no_bid, m.no_ask, 30)
  /\ m.liquidity.t = "int" /\ m.liquidity.v >= 1000

DeadQuote(bid, ask) ==
  bid.t = "int" /\ ask.t = "int" /\ ((bid.v = 0 /\ ask.v = 0) \/ (bid.v = 100 /\ ask.v = 100))

\* The fetched record an annotated copy was made from.
Original(a) == [f \in DOMAIN a \ {"_yes_spread", "_no_spread", "_event_ticker"} |-> a[f]]

Originals(as) == [k \in 1..Len(as) |-> Original(as[k])]

\* C5: the contracts kept (before the cap) are exactly the members with both
\* spreads below 30 and liquidity at least 1000, in ladder order; every
\* contract of the ranked result satisfies the three conditions, and none
\* has a dead quote on either side.
C5_FilterKeepsExactly ==
  fl_pc = "done" =>
    /\ Originals(fl_filtered) = SelectSeq(fl_ladder, Keeps)
    /\ \A k \in 1..Len(fl_ranked) :
         LET m == fl_ranked[k]
         IN /\ Keeps(Original(m))
            /\ m._yes_spread = m.yes_ask.v - m.yes_bid.v /\ m._yes_spread < 30
            /\ m._no_spread = m.no_ask.v - m.no_bid.v /\ m._no_spread < 30
            /\ ~DeadQuote(m.yes_bid, m.yes_ask) /\ ~DeadQuote(m.no_bid, m.no_ask)
    /\ Range(fl_ranked) = Range(fl_filtered)

\* A ladder of a kept contract (liquidity exactly 1000) and a contract with a
\* dead yes quote and the same liquidity: only the first is kept.
C5_Witness ==
  /\ fl_pc = "done"
  /\ Len(fl_ladder) = 2
  /\ fl_ladder[1].yes_bid = PyInt(40) /\ fl_ladder[1].yes_ask = PyInt(55)
  /\ fl_ladder[1].no_bid = PyInt(45) /\ fl_ladder[1].no_ask = PyInt(60)
  /\ fl_ladder[1].liquidity = PyInt(1000)
  /\ fl_ladder[2].yes_bid = PyInt(100) /\ fl_ladder[2].yes_ask = PyInt(100)
  /\ fl_ladder[2].no_bid = PyInt(45) /\ fl_ladder[2].no_ask = PyInt(60)
  /\ fl_ladder[2].liquidity = PyInt(1000)
  /\ Len(fl_ranked) = 1 /\ Original(fl_ranked[1]) = fl_ladder[1]

-----------------------------------------------------------------------------
(* PoolBuilder: build_pool                                                 *)

SERIES == <<"KXETHD", "KXETH", "KXBTCD", "KXBTC", "KXXRPD", "KXXRP">>

\* The largest listing of the model holds this many contracts more than the cap.
Overflow == 2

\* Value of time.time() during a pool build: 2026-01-01T00:10:00Z.
PoolNows == {1767226200}

Tight == <<PyInt(40), PyInt(55)>>
Wide  == <<PyInt(10), PyInt(90)>>
Dead  == <<PyInt(0), PyInt(0)>>

\* A contract record of series s: the ticker is kept as its parts (series,
\* event, strike number).
Mk(s, e, n, close, liq, yq, nq) ==
  [ticker |-> <<s, e, n>>, event_ticker |-> e, close_time |-> close,
   yes_bid |-> yq[1], yes_ask |-> yq[2], no_bid |-> nq[1], no_ask |-> nq[2],
   liquidity |-> PyInt(liq)]

OkResp(markets, cursor) == [status |-> "ok", markets |-> markets, cursor |-> cursor]
ErrResp == [status |-> "error", markets |-> <<>>, cursor |-> None]

\* First page of a two-event listing: one event closing at 00:13 (inside the
\* 5-minute buffer), the start of the event closing at 00:20.
PageOne(s) ==
  <<Mk(s, "EV-SOON", 1, "2026-01-01T00:13:00Z", 5000, Tight, Tight),
    Mk(s, "EV-NEXT", 1, "2026-01-01T00:20:00Z", 1500, Tight, Tight),
    Mk(s, "EV-NEXT", 2, "2026-01-01T00:20:00Z", 3000, Tight, Tight)>>

\* Second page: more of the 00:20 event, among them a dead quote, a wide
\* spread and a liquidity below the minimum.
PageTwo(s) ==
  <<Mk(s, "EV-NEXT", 3, "2026-01-01T00:20:00Z", 2000, Tight, Tight),
    Mk(s, "EV-NEXT", 4, "2026-01-01T00:20:00Z", 4000, Dead, Tight),
    Mk(s, "EV-NEXT", 5, "2026-01-01T00:20:00Z", 999, Tight, Tight),
    Mk(s, "EV-NEXT", 6, "2026-01-01T00:20:00Z", 3000, Tight, Tight),
    Mk(s, "EV-NEXT", 7, "2026-01-01T00:20:00Z", 6000, Tight, Wide)>>

\* A listing of one event with more passing contracts than the cap, their
\* liquidities neither sorted nor distinct.
BigPage(s) ==
  [n \in 1..(TOP_N_LIQUID_PER_EVENT + Overflow) |->
     Mk(s, "EV-NEXT", n, "2026-01-01T00:20:00Z", 1000 + 100 * ((n * 3) % 7), Tight, Tight)]

\* A listing of one event none of whose contracts passes the filter.
WidePage(s) ==
  <<Mk(s, "EV-NEXT", 1, "2026-01-01T00:20:00Z", 5000, Wide, Tight),
    Mk(s, "EV-NEXT", 2, "2026-01-01T00:20:00Z", 500, Tight, Tight)>>

\* What the listing endpoint may answer, request after request, for series s:
\* an error at once, an empty listing, two pages, a page and then an error,
\* one page above the cap, one page without survivors.
ScriptKinds == {"error", "empty", "two_pages", "error_on_page_two", "big", "no_survivor"}

ScriptOf(s, kind) ==
  CASE kind = "error"             -> <<ErrResp>>
    [] kind = "empty"             -> <<OkResp(<<>>, None)>>
    [] kind = "two_pages"         -> <<OkResp(PageOne(s), "c1"), OkResp(PageTwo(s), "")>>
    [] kind = "error_on_page_two" -> <<OkResp(PageOne(s), "c1"), ErrResp>>
    [] kind = "big"               -> <<OkResp(BigPage(s), None)>>
    [] kind = "no_survivor"       -> <<OkResp(WidePage(s), "")>>

\* The body of the series loop after the fetch: what the series adds to the pool.
series_contribution(mkts, now_ts) ==
  LET r == pick_soonest_future_event(group_by_event(mkts), now_ts)
  IN IF ~Truthy(r.evt) \/ r.members = <<>> THEN <<>>
     ELSE LET filtered == filter_ladder(r.members, r.evt)
          IN IF filtered = <<>> THEN <<>> ELSE rank_and_truncate(filtered)

InitPool ==
  /\ p_pc = "loop" /\ p_i = 1 /\ p_pool = <<>> /\ p_scripts = <<>>
  /\ IdleFetch /\ IdleSelect /\ IdleFilter /\ IdlePrice /\ IdleBuy

\* One iteration of "for series in SERIES": the fetch is not guarded, so an
\* error raised by it leaves build_pool; otherwise the contribution is appended.
BuildSeries ==
  /\ p_pc = "loop"
  /\ p_i <= Len(SERIES)
  /\ \E kind \in ScriptKinds, now \in PoolNows :
       \E got \in {get_open_markets_for_series(ScriptOf(SERIES[p_i], kind))} :
          /\ p_scripts' = Append(p_scripts, [kind |-> kind, now |-> now])
          /\ IF got.pc = "raised"
             THEN /\ p_pc' = "raised"
                  /\ UNCHANGED <<p_i, p_pool>>
             ELSE /\ \E filtered \in {series_contribution(got.markets, now)} :
                       p_pool' = p_pool \o filtered
                  /\ p_i' = p_i + 1
                  /\ p_pc' = p_pc
  /\ UNCHANGED <<fetchVars, selVars, filterVars, priceVars, buyVars>>

\* return pool
ReturnPool ==
  /\ p_pc = "loop"
  /\ p_i > Len(SERIES)
  /\ p_pc' = "returned"
  /\ UNCHANGED <<p_i, p_pool, p_scripts>>
  /\ UNCHANGED <<fetchVars, selVars, filterVars, priceVars, buyVars>>

NextPool == BuildSeries \/ ReturnPool

SpecPool == InitPool /\ [][NextPool]_vars

\* What the i-th processed series was answered, and what follows from it.
Fetched(i) == get_open_markets_for_series(ScriptOf(SERIES[i], p_scripts[i].kind))

FetchFailed(i) == Fetched(i).pc = "raised"

Listing(i) == Fetched(i).markets

SelectedEvent(i) ==
  pick_soonest_future_event(group_by_event(Listing(i)), p_scripts[i].now).evt

Survivors(i) ==
  LET e == SelectedEvent(i)
  IN {m \in Range(Listing(i)) : m.event_ticker = e /\ Keeps(m)}

\* The part of the pool that carries tickers of the i-th series.
Segment(i) == SelectSeq(p_pool, LAMBDA a : a.ticker[1] = SERIES[i])

MinOf(a, b) == IF a <= b THEN a ELSE b

\* seg holds contracts of the survivor set surv, as many as the cap allows.
HoldsSurvivors(seg, surv) ==
  /\ Range(Originals(seg)) \subseteq surv
  /\ Len(seg) = MinOf(50, Cardinality(surv))

\* C1: a failing listing fetch aborts only its own series: build_pool does
\* not stop on it, the loop goes on to the next series, and the returned
\* pool holds the surviving contracts of every series whose fetch succeeded.
C1_FetchFailureScopedToSeries ==
  /\ p_pc # "raised"
  /\ p_pc \in {"loop", "returned"} => Len(p_scripts) = p_i - 1
  /\ p_pc = "returned" =>
       /\ Len(p_scripts) = Len(SERIES)
       /\ \A i \in 1..Len(p_scripts) :
            ~FetchFailed(i) => HoldsSurvivors(Segment(i), Survivors(i))

\* What C7 says of the segment of the i-th series, already processed or not.
SegmentRanked(i, seg) ==
  /\ \A k \in 1..(Len(seg) - 1) : get_liquidity(seg[k]) >= get_liquidity(seg[k + 1])
  /\ Len(seg) <= 50
  /\ \A k \in 1..Len(seg) : seg[k].event_ticker = seg[1].event_ticker
  /\ Cardinality({seg[k].ticker : k \in 1..Len(seg)}) = Len(seg)
  /\ IF i <= Len(p_scripts)
     THEN LET surv == Survivors(i)
              e    == SelectedEvent(i)
          IN /\ HoldsSurvivors(seg, surv)
             /\ \A k \in 1..Len(seg) : seg[k]._event_ticker = e
             /\ \A m \in surv \ Range(Originals(seg)) :
                  m.liquidity.v <= get_liquidity(seg[Len(seg)])
     ELSE seg = <<>>

\* C7: the pool is the concatenation, in series-list order, of one segment
\* per series; a segment is ordered by non-increasing liquidity, holds at
\* most 50 contracts, all survivors of the one event selected for the
\* series, as many as the cap allows, and no survivor left out is more
\* liquid than one kept; a series without survivors has an empty segment.
C7_PoolOrderAndCap ==
  p_pc \in {"loop", "returned"} =>
    LET segs == [i \in 1..Len(SERIES) |-> Segment(i)]
    IN /\ p_pool = Concat(segs)
       /\ \A i \in 1..Len(SERIES) : SegmentRanked(i, segs[i])

\* A returned pool in which the first series hit the cap (52 survivors, 50
\* kept), the second contributed nothing, and the third contributed the four
\* survivors of its two-page listing in rank order.
C7_Witness ==
  /\ p_pc = "returned"
  /\ Cardinality(Survivors(1)) = 50 + Overflow /\ Len(Segment(1)) = 50
  /\ Survivors(2) = {} /\ Segment(2) = <<>>
  /\ Len(Listing(2)) = 2
  /\ Len(Segment(3)) = 4
  /\ [k \in 1..4 |-> Segment(3)[k].liquidity.v] = <<3000, 3000, 2000, 1500>>
  /\ [k \in 1..4 |-> Segment(3)[k].ticker[3]] = <<2, 6, 3, 1>>

-----------------------------------------------------------------------------
(* OrderPricer: _limit_price_cents_for_buy                                 *)

\* The integer asks of the pricing model run from -MaxNegAsk to MaxAsk.
MaxNegAsk == 5
MaxAsk == 105

\* The default of price_buffer_cents, the only value the callers use.
PRICE_BUFFER_CENTS == 2

\* What a contract may hold as an ask: nothing, a non-number, an integer.
Asks == {PyNone, PyStr} \cup {PyInt(n) : n \in (0 - MaxNegAsk)..MaxAsk}

MaxInt(a, b) == IF a >= b THEN a ELSE b

\* A mutant: the clamp forgotten.
limit_price_unclamped(side, market, price_buffer_cents) ==
  LET ask == IF side = "yes" THEN market.yes_ask ELSE market.no_ask
      a   == IF ~IsNumber(ask) THEN 50 ELSE ask.v
  IN a + price_buffer_cents

\* _limit_price_cents_for_buy on integer asks (round() of an integer is itself).
limit_price_cents_for_buy(side, market, price_buffer_cents) ==
  LET ask == IF side = "yes" THEN market.yes_ask ELSE market.no_ask
      a   == IF ~IsNumber(ask) THEN 50 ELSE ask.v
      price_with_buffer == a + price_buffer_cents
  IN MaxInt(1, MinOf(99, price_with_buffer))

InitPrice ==
  /\ pr_pc = "input"
  /\ pr_side \in {"yes", "no"}
  /\ pr_market \in [yes_ask : Asks, no_ask : Asks]
  /\ pr_buffer = PRICE_BUFFER_CENTS
  /\ pr_price = 0
  /\ IdleFetch /\ IdleSelect /\ IdleFilter /\ IdlePool /\ IdleBuy

ComputePrice ==
  /\ pr_pc = "input"
  /\ pr_price' = limit_price_cents_for_buy(pr_side, pr_market, pr_buffer)
  /\ pr_pc' = "done"
  /\ UNCHANGED <<pr_side, pr_market, pr_buffer>>
  /\ UNCHANGED <<fetchVars, selVars, filterVars, poolVars, buyVars>>

NextPrice == ComputePrice

SpecPrice == InitPrice /\ [][NextPrice]_vars

ChosenAsk == IF pr_side = "yes" THEN pr_market.yes_ask ELSE pr_market.no_ask

Clamped(n) == IF n < 1 THEN 1 ELSE IF n > 99 THEN 99 ELSE n

\* C6 as stated: the price is an integer in [1,99], the ask plus the buffer
\* clamped, and 52 whenever the ask is absent, non-numeric or invalid
\* (a number outside the 0..100 cents of a price, such as -5).
C6_AsStated ==
  pr_pc = "done" =>
    /\ pr_price \in 1..99
    /\ IF ChosenAsk.t = "int" /\ ChosenAsk.v \in 0..100
       THEN pr_price = Clamped(ChosenAsk.v + 2)
       ELSE pr_price = 52

\* C6 amended: the price is an integer in [1,99]; a numeric ask, whatever
\* its value, is used as it is (ask plus buffer, clamped: -5 gives 1, 97
\* gives 99); only an absent or non-numeric ask is replaced by 50, giving 52.
C6_PriceClamped ==
  pr_pc = "done" =>
    /\ pr_price \in 1..99
    /\ IF ChosenAsk.t = "int"
       THEN pr_price = Clamped(ChosenAsk.v + 2)
       ELSE pr_price = 52

\* The yes ask -5 priced at 1.
C6_Witness ==
  /\ pr_pc = "done" /\ pr_side = "yes"
  /\ pr_market.yes_ask = PyInt(0 - 5) /\ pr_market.no_ask = PyNone
  /\ pr_price = 1

-----------------------------------------------------------------------------
(* OrderExecutor: _choose_side, sign_request, _post_create_order,          *)
(* buy_from_pool                                                           *)

\* Bound on the length of the pool handed to buy_from_pool.
MaxPool == 3

\* The contracts of the order model: asks near the upper clamp, absent,
\* non-numeric, and ordinary.
BuyContracts ==
  { [ticker |-> "T1", yes_ask |-> PyInt(97), no_ask |-> PyInt(5)],
    [ticker |-> "T2", yes_ask |-> PyNone, no_ask |-> PyInt(40)],
    [ticker |-> "T3", yes_ask |-> PyInt(60), no_ask |-> PyStr] }

\* What requests.post and the response handling may do for one order: a
\* response parsed, an HTTP error status, a transport failure (timeout,
\* connection error), a body that is not JSON.
PostOutcomes == {"ok", "http_error", "transport_error", "bad_json"}

\* The sides _choose_side may return.
choose_side(side_strategy) ==
  IF side_strategy = "yes" THEN {"yes"}
  ELSE IF side_strategy = "no" THEN {"no"}
  ELSE {"yes", "no"}

\* A mutant: a limit order priced from the other side's ask.
order_body_other_ask(m, side, use_market_orders) ==
  LET body == [ticker |-> m.ticker, side |-> side, action |-> "buy", count |-> 1,
               time_in_force |-> "GTC"]
  IN IF use_market_orders THEN body @@ [type |-> "market"]
     ELSE IF side = "yes"
          THEN body @@ [type |-> "limit",
                        yes_price |-> limit_price_cents_for_buy("no", m, PRICE_BUFFER_CENTS)]
          ELSE body @@ [type |-> "limit",
                        no_price |-> limit_price_cents_for_buy("yes", m, PRICE_BUFFER_CENTS)]

\* The order body built for target m.
order_body(m, side, use_market_orders) ==
  LET body == [ticker |-> m.ticker, side |-> side, action |-> "buy", count |-> 1,
               time_in_force |-> "GTC"]
  IN IF use_market_orders THEN body @@ [type |-> "market"]
     ELSE IF side = "yes"
          THEN body @@ [type |-> "limit",
                        yes_price |-> limit_price_cents_for_buy("yes", m, PRICE_BUFFER_CENTS)]
          ELSE body @@ [type |-> "limit",
                        no_price |-> limit_price_cents_for_buy("no", m, PRICE_BUFFER_CENTS)]

\* sign_request: load_pem_private_key raises on key material it cannot parse.
sign_request(key_ok) == IF key_ok THEN "signed" ELSE "raise"

\* _post_create_order: what the call ends with, and whether the request was
\* sent.  The signature is made before the request; a signing error leaves
\* the call before anything is posted.
post_create_order(key_ok, outcome) ==
  IF sign_request(key_ok) = "raise"
  THEN [sent |-> FALSE, result |-> "signing_error"]
  ELSE [sent |-> TRUE, result |-> outcome]

\* A mutant of the loop body: an error of the call leaves the loop.
order_iteration_abort(st, side, outcome) ==
  LET m    == st.targets[st.idx]
      body == order_body(m, side, st.use_market_orders)
      call == post_create_order(st.key_ok, outcome)
  IN [st EXCEPT
        !.calls   = Append(@, body),
        !.posts   = IF call.sent THEN Append(@, body) ELSE @,
        !.results = IF call.result = "ok"
                    THEN Append(@, <<m.ticker, [order |-> [status |-> "resting"]]>>)
                    ELSE @,
        !.log     = IF call.result = "ok"
                    THEN Append(@, [line |-> "ORDER OK", ticker |-> m.ticker, error |-> "none"])
                    ELSE @,
        !.pc      = IF call.result = "ok" THEN @ ELSE "raised",
        !.idx     = IF call.result = "ok" THEN @ + 1 ELSE @]

\* One iteration of "for m in targets": side, body, the guarded call.  An
\* HTTPError is reported by the first handler, every other Exception (a
\* signing error among them) by the second; the loop goes on in each case.
order_iteration(st, side, outcome) ==
  LET m    == st.targets[st.idx]
      body == order_body(m, side, st.use_market_orders)
      call == post_create_order(st.key_ok, outcome)
  IN [st EXCEPT
        !.calls   = Append(@, body),
        !.posts   = IF call.sent THEN Append(@, body) ELSE @,
        !.results = IF call.result = "ok"
                    THEN Append(@, <<m.ticker, [order |-> [status |-> "resting"]]>>)
                    ELSE @,
        !.log     = Append(@,
                      CASE call.result = "ok" ->
                             [line |-> "ORDER OK", ticker |-> m.ticker, error |-> "none"]
                        [] call.result = "http_error" ->
                             [line |-> "ORDER HTTP ERROR", ticker |-> m.ticker,
                              error |-> call.result]
                        [] OTHER ->
                             [line |-> "ORDER ERROR", ticker |-> m.ticker,
                              error |-> call.result]),
        !.idx     = @ + 1]

BuyState ==
  [pc |-> b_pc, targets |-> b_targets, idx |-> b_idx, results |-> b_results,
   calls |-> b_calls, posts |-> b_posts, log |-> b_log,
   use_market_orders |-> b_use_market_orders, key_ok |-> b_key_ok]

InitBuy ==
  /\ b_pc = "start"
  /\ b_pool \in SeqsUpTo(BuyContracts, MaxPool)
  /\ b_choose \in {"one_random", "all"}
  /\ b_side_strategy \in {"yes", "no", "random"}
  /\ b_use_market_orders \in BOOLEAN
  /\ b_key_ok \in BOOLEAN
  /\ b_targets = <<>> /\ b_idx = 0 /\ b_results = <<>> /\ b_calls = <<>>
  /\ b_posts = <<>> /\ b_log = <<>>
  /\ IdleFetch /\ IdleSelect /\ IdleFilter /\ IdlePool /\ IdlePrice

\* "if not pool: return []"
BuyEmpty ==
  /\ b_pc = "start"
  /\ b_pool = <<>>
  /\ b_pc' = "returned"
  /\ UNCHANGED <<b_pool, b_choose, b_side_strategy, b_use_market_orders, b_key_ok,
                 b_targets, b_idx, b_results, b_calls, b_posts, b_log>>
  /\ UNCHANGED <<fetchVars, selVars, filterVars, poolVars, priceVars>>

\* The choice of the targets: one element of the pool, or all of it.
ChooseTargets ==
  /\ b_pc = "start"
  /\ b_pool # <<>>
  /\ IF b_choose = "one_random"
     THEN \E i \in 1..Len(b_pool) : b_targets' = <<b_pool[i]>>
     ELSE b_targets' = b_pool
  /\ b_idx' = 1
  /\ b_pc' = "loop"
  /\ UNCHANGED <<b_pool, b_choose, b_side_strategy, b_use_market_orders, b_key_ok,
                 b_results, b_calls, b_posts, b_log>>
  /\ UNCHANGED <<fetchVars, selVars, filterVars, poolVars, priceVars>>

PlaceOrder ==
  /\ b_pc = "loop"
  /\ b_idx <= Len(b_targets)
  /\ \E side \in choose_side(b_side_strategy), outcome \in PostOutcomes :
       LET st == order_iteration(BuyState, side, outcome)
       IN /\ b_pc' = st.pc /\ b_idx' = st.idx /\ b_results' = st.results
          /\ b_calls' = st.calls /\ b_posts' = st.posts /\ b_log' = st.log
  /\ UNCHANGED <<b_pool, b_choose, b_side_strategy, b_use_market_orders, b_key_ok,
                 b_targets>>
  /\ UNCHANGED <<fetchVars, selVars, filterVars, poolVars, priceVars>>

\* return results
BuyReturn ==
  /\ b_pc = "loop"
  /\ b_idx > Len(b_targets)
  /\ b_pc' = "returned"
  /\ UNCHANGED <<b_pool, b_choose, b_side_strategy, b_use_market_orders, b_key_ok,
                 b_targets, b_idx, b_results, b_calls, b_posts, b_log>>
  /\ UNCHANGED <<fetchVars, selVars, filterVars, poolVars, priceVars>>

NextBuy == BuyEmpty \/ ChooseTargets \/ PlaceOrder \/ BuyReturn

SpecBuy == InitBuy /\ [][NextBuy]_vars

\* C2: one call of the order endpoint per target, in target order, and no
\* more; the targets are the whole pool (choose "all") or one member of a
\* non-empty pool; no outcome of a call ends the loop early, so at the
\* return the calls are as many as the targets, each reported once.
C2_OneAttemptPerTarget ==
  /\ b_pc # "raised"
  /\ b_pc \in {"loop", "returned"} /\ b_pool # <<>> =>
       /\ IF b_choose = "one_random"
          THEN Len(b_targets) = 1 /\ b_targets[1] \in Range(b_pool)
          ELSE b_targets = b_pool
       /\ Len(b_calls) = b_idx - 1
       /\ Len(b_log) = Len(b_calls)
       /\ \A k \in 1..Len(b_calls) :
            b_calls[k].ticker = b_targets[k].ticker /\ b_log[k].ticker = b_targets[k].ticker
       /\ Len(b_posts) = (IF b_key_ok THEN Len(b_calls) ELSE 0)
  /\ b_pc = "returned" => Len(b_calls) = Len(b_targets)
  /\ b_pool = <<>> => b_calls = <<>>

\* A run over a pool of three, all targeted, whose first two orders failed
\* (an HTTP error, then a transport failure) and whose third went through.
C2_Witness ==
  /\ b_pc = "returned" /\ b_choose = "all" /\ Len(b_pool) = 3
  /\ Len(b_calls) = 3 /\ Len(b_log) = 3
  /\ b_log[1].error = "http_error" /\ b_log[2].error = "transport_error"
  /\ b_log[3].line = "ORDER OK"
  /\ Len(b_results) = 1

\* C3: a signing failure while an order is submitted ends the order loop
\* with the error propagated: nothing is posted for that target, and no
\* later target is tried.
C3_SigningFailureIsFatal ==
  (\E k \in 1..Len(b_log) : b_log[k].error = "signing_error") =>
    /\ b_pc = "raised"
    /\ b_posts = <<>>
    /\ Len(b_calls) = 1

PriceFields(body) == DOMAIN body \cap {"yes_price", "no_price"}

\* C8: every order body carries the target's ticker, action buy, count 1,
\* GTC; a market order has no price field; a limit order has exactly the
\* price field of its side, an integer in [1,99] computed from that side's
\* ask (ask + 2 clamped, 52 without a numeric ask); with side_strategy
\* "yes" or "no" the side is the requested one.
C8_OrderBodyShape ==
  \A k \in 1..Len(b_calls) :
    LET body == b_calls[k]
        m    == b_targets[k]
        ask  == IF body.side = "yes" THEN m.yes_ask ELSE m.no_ask
    IN /\ body.ticker = m.ticker /\ body.action = "buy" /\ body.count = 1
       /\ body.time_in_force = "GTC"
       /\ body.side \in {"yes", "no"}
       /\ b_side_strategy \in {"yes", "no"} => body.side = b_side_strategy
       /\ IF b_use_market_orders
          THEN body.type = "market" /\ PriceFields(body) = {}
          ELSE /\ body.type = "limit"
               /\ PriceFields(body) = {IF body.side = "yes" THEN "yes_price" ELSE "no_price"}
               /\ LET price == IF body.side = "yes" THEN body.yes_price ELSE body.no_price
                  IN /\ price \in 1..99
                     /\ price = IF ask.t = "int" THEN Clamped(ask.v + 2) ELSE 52

\* A limit order on the no side of T1 (no ask 5) priced 7, and a limit
\* order on the yes side of T1 (yes ask 97) priced 99, both sent.
C8_Witness ==
  /\ ~b_use_market_orders /\ b_side_strategy = "random"
  /\ Len(b_posts) = 2
  /\ b_posts[1].ticker = "T1" /\ b_posts[1].side = "no" /\ b_posts[1].no_price = 7
  /\ DOMAIN b_posts[1] = {"ticker", "side", "action", "count", "time_in_force", "type",
                          "no_price"}
  /\ b_posts[2].ticker = "T1" /\ b_posts[2].side = "yes" /\ b_posts[2].yes_price = 99

=============================================================================
